---- MODULE Spec2Model ----
(***************************************************************************)
(* UrbitSSEClient (urbit-sse-client.js): subscription registry, channel   *)
(* creation, background stream reader, event router and reconnect         *)
(* controller.                                                             *)
(*                                                                         *)
(* One action is one synchronous run of the JavaScript between two        *)
(* awaits: a request is sent at the end of the run that reaches the       *)
(* fetch, and its response starts the next run.                           *)
(*                                                                         *)
(* The foreground caller registers subscriptions, calls connect() once    *)
(* (as monitor.js does; a connect() that failed may be called again) and  *)
(* may call close() at any time.                                          *)
(*                                                                         *)
(* Spec is the client at the level of frames: every chunk the reader gets *)
(* completes one frame, which goes to processEvent.  SpecStream is the    *)
(* read loop at the level of bytes: how chunks become frames.             *)
(*                                                                         *)
(* When the stream GET succeeds, openStream() and connect() return in the *)
(* same run of microtasks (no I/O or timer callback can come in between), *)
(* so the response, isConnected = true and reconnectAttempts = 0 are one  *)
(* step; the new reader sees its first chunk or its end only later.       *)
(***************************************************************************)
EXTENDS Integers, Sequences, FiniteSets, TLC

\* ------------------------------------------------------------------ bounds
MaxSubs == 2          \* subscribe() calls per client instance
MaxAttemptsOpt == 2   \* the maxReconnectAttempts option tried beside the default
MaxChannelIds == 3    \* channel identities regenerated per behaviour
MaxFrames == 2        \* frames of one wire text (stream reassembly)
MaxMsgIds == 2        \* message ids the monitor's handlers see
MaxTicks == 3         \* steps of the clock of the scry cache
TickMs == 30000       \* milliseconds of one step of that clock

\* ------------------------------------------------------- program constants
DefaultMaxReconnectAttempts == 10
DefaultReconnectDelay == 1000
DefaultMaxReconnectDelay == 30000

VARIABLES
  subscriptions,        \* this.subscriptions: sequence of subscribe actions
  eventHandlers,        \* this.eventHandlers: subId -> {event, err, quit}
  aborted,              \* this.aborted
  isConnected,          \* this.isConnected
  channelId,            \* this.channelId (and the channelUrl derived from it)
  reconnectAttempts,    \* this.reconnectAttempts
  autoReconnect,        \* this.autoReconnect
  maxReconnectAttempts, \* this.maxReconnectAttempts
  reconnectDelay,       \* this.reconnectDelay
  maxReconnectDelay,    \* this.maxReconnectDelay
  onReconnect,          \* this.onReconnect is set
  fg,                   \* position of the caller's connect()
  rd,                   \* the background task: processStream and, in its
                        \* finally block, the attemptReconnect chain
  cl,                   \* position of the caller's close()
  returned,             \* what subscribe() was called with and the id it
                        \* returned, in call order
  quitSub,              \* the registered id named by the latest quit event
                        \* processed (0: none yet)
  last,                 \* the step just taken
  frame,                \* the frame handed to processEvent by the last step
  calls,                \* handler and hook invocations of the last step
  sent,                 \* requests sent by the last step
  thrown,               \* the error a method of the client threw in the
                        \* last step ("none": it threw nothing)
  wireFrames,           \* stream reassembly: the frames of the wire text
  wire,                 \* stream reassembly: bytes not yet read
  buffer,               \* processStream's buffer (decoded text)
  delivered,            \* frames handed to processEvent by processStream
  processedMessages,    \* monitor.js: ids of the messages seen so far
  account,              \* monitor.js: the account and channel configuration
  handled,              \* monitor.js: the update the last step handled
  dispatched,           \* monitor.js: messages handed to processMessage
  cacheFiles,           \* scry.mjs: the files of the cache directory
  now,                  \* Date.now()
  scryOut,              \* scry.mjs: what the last scry() did
  options               \* the options object the constructor was given

vars == << subscriptions, eventHandlers, aborted, isConnected, channelId,
           reconnectAttempts, autoReconnect, maxReconnectAttempts,
           reconnectDelay, maxReconnectDelay, onReconnect, fg, rd, cl,
           returned, quitSub, last, frame, calls, sent, thrown,
           wireFrames, wire, buffer, delivered,
           processedMessages, account, handled, dispatched,
           cacheFiles, now, scryOut, options >>

cfgVars == << autoReconnect, maxReconnectAttempts, reconnectDelay,
              maxReconnectDelay, onReconnect >>
wireVars == << wireFrames, wire, buffer, delivered >>
\* the monitor (monitor.js), the scry script (scry.mjs), the clock and the
\* constructor's argument, which the steps of the client leave alone
appVars == << processedMessages, account, handled, dispatched,
             cacheFiles, now, scryOut, options >>

Min(a, b) == IF a <= b THEN a ELSE b

\* ----------------------------------------------------------- constructor
\* options.x || d : an absent or zero option takes the default
OrDefault(v, d) == IF v = 0 THEN d ELSE v

NoTask == [pc |-> "none", end |-> "none", delay |-> 0, tries |-> 0, why |-> "none"]
NoData == [kind |-> "none", response |-> "none", id |-> 0, json |-> FALSE]
NoFrame == [lineId |-> 0, data |-> NoData]

ClientInit(optAuto, optMax, optDelay, optMaxDelay, optHook) ==
  /\ subscriptions = << >>
  /\ eventHandlers = << >>
  /\ aborted = FALSE
  /\ isConnected = FALSE
  /\ channelId = 0
  /\ reconnectAttempts = 0
  /\ autoReconnect = (optAuto # "false")
  /\ maxReconnectAttempts = OrDefault(optMax, DefaultMaxReconnectAttempts)
  /\ reconnectDelay = OrDefault(optDelay, DefaultReconnectDelay)
  /\ maxReconnectDelay = OrDefault(optMaxDelay, DefaultMaxReconnectDelay)
  /\ onReconnect = optHook

\* An options object: a numeric option is Absent or a number, autoReconnect
\* is "unset", "true" or "false", onReconnect is given or not.
Absent == -1
NoOptions ==
  [autoReconnect |-> "unset", maxReconnectAttempts |-> Absent,
   reconnectDelay |-> Absent, maxReconnectDelay |-> Absent, onReconnect |-> FALSE]
OptionSets ==
  { [autoReconnect |-> a, maxReconnectAttempts |-> m, reconnectDelay |-> d,
     maxReconnectDelay |-> x, onReconnect |-> h] :
      a \in {"unset", "true", "false"}, m \in {Absent, 0, MaxAttemptsOpt},
      d \in {Absent, 0, 5}, x \in {Absent, 0, 8}, h \in BOOLEAN }
\* what `options.x || d` sees: undefined and 0 are both falsy
Falsy(v) == IF v = Absent THEN 0 ELSE v

\* new UrbitSSEClient(url, cookie, o)
constructor(o) ==
  /\ options' = o
  /\ subscriptions' = << >>
  /\ eventHandlers' = << >>
  /\ aborted' = FALSE
  /\ isConnected' = FALSE
  /\ channelId' = 0
  /\ reconnectAttempts' = 0
  /\ onReconnect' = o.onReconnect
  /\ autoReconnect' = (o.autoReconnect # "false")
  /\ maxReconnectAttempts' =
       OrDefault(Falsy(o.maxReconnectAttempts), DefaultMaxReconnectAttempts)
  /\ reconnectDelay' = OrDefault(Falsy(o.reconnectDelay), DefaultReconnectDelay)
  /\ maxReconnectDelay' =
       OrDefault(Falsy(o.maxReconnectDelay), DefaultMaxReconnectDelay)
  /\ last' = "constructed"
  /\ UNCHANGED << fg, rd, cl, returned, quitSub, frame, calls, sent, thrown,
                  wireVars, processedMessages, account, handled, dispatched,
                  cacheFiles, now, scryOut >>

\* Map iteration order: keys in insertion order, which is ascending subId
RECURSIVE KeysInOrder(_)
KeysInOrder(S) ==
  IF S = {} THEN << >>
  ELSE LET m == CHOOSE x \in S : \A y \in S : x <= y
       IN << m >> \o KeysInOrder(S \ {m})

\* ------------------------------------------------------------- subscribe
NextSubId_From0 == Len(subscriptions)
NextSubId == Len(subscriptions) + 1

\* what the caller passes to subscribe(): app, path and the handler triple
\* (event: absent, returns, or throws; err: present or not; quit likewise)
SubscribeArgs ==
  { [app |-> "chat", path |-> "/dm/x",
     handlers |-> [event |-> "ok", err |-> TRUE, quit |-> "ok"]],
    [app |-> "channels", path |-> "/chat/g",
     handlers |-> [event |-> "throws", err |-> TRUE, quit |-> "ok"]],
    [app |-> "chat", path |-> "/dm/y",
     handlers |-> [event |-> "none", err |-> FALSE, quit |-> "none"]] }

\* the requests subscribe() sends: it calls no fetch
SubscribeSends_WhenLive ==
  IF isConnected THEN << [kind |-> "subscribe", chan |-> channelId, body |-> << >>] >>
  ELSE << >>
SubscribeSends == << >>

subscribe(app, path, h) ==
  LET subId == NextSubId IN
  /\ Len(subscriptions) < MaxSubs
  /\ subscriptions' = Append(subscriptions,
        [id |-> subId, action |-> "subscribe", ship |-> "ship", app |-> app, path |-> path])
  /\ eventHandlers' = (subId :> h) @@ eventHandlers
  /\ returned' = Append(returned, [id |-> subId, app |-> app, path |-> path])
  /\ last' = "subscribe"
  /\ thrown' = "none"
  /\ frame' = NoFrame /\ calls' = << >> /\ sent' = SubscribeSends
  /\ UNCHANGED << aborted, isConnected, channelId, reconnectAttempts, cfgVars,
                  fg, rd, cl, quitSub, wireVars, appVars >>

\* --------------------------------------------------------------- requests
\* JSON.stringify(this.subscriptions): the fields of every entry, in order
Stringify(subs) ==
  [i \in 1..Len(subs) |->
     [id |-> subs[i].id, action |-> subs[i].action, ship |-> subs[i].ship,
      app |-> subs[i].app, path |-> subs[i].path]]

CreateBody_Empty == << >>
CreateBody == Stringify(subscriptions)

\* every request goes to this.channelUrl as it is when the fetch is called
CreateRequest(url) == [kind |-> "create", chan |-> url, body |-> CreateBody]
\* the poke action of a batch: id: Date.now()
PokeAction == [id |-> now, action |-> "poke"]
ActivateRequest_Stale(url) ==
  [kind |-> "activate", chan |-> url - 1, body |-> << PokeAction >>]
ActivateRequest(url) == [kind |-> "activate", chan |-> url, body |-> << PokeAction >>]
StreamRequest(url) == [kind |-> "stream", chan |-> url, body |-> << >>]
UnsubscribeRequest(url) ==
  [kind |-> "unsubscribe", chan |-> url,
   body |-> [i \in 1..Len(subscriptions) |->
               [id |-> subscriptions[i].id, action |-> "unsubscribe",
                subscription |-> subscriptions[i].id]]]
DeleteRequest(url) == [kind |-> "delete", chan |-> url, body |-> << >>]
\* poke(): one batch with one poke action, PUT to the channel
PokeRequest(url) == [kind |-> "poke", chan |-> url, body |-> << PokeAction >>]
\* scry(): a GET of `${this.url}/~/scry${path}`, which names no channel (0)
ScryRequest == [kind |-> "scry", chan |-> 0, body |-> << >>]

\* ------------------------------------------------------------ error path
\* openStream's catch: every err handler, unless aborted
ErrCalls ==
  LET ks == KeysInOrder(DOMAIN eventHandlers)
  IN SelectSeq([i \in 1..Len(ks) |-> [h |-> "err", sub |-> ks[i]]],
               LAMBDA c : eventHandlers[c.sub].err)

\* the promise of processStream settles: it rejects when the read loop threw
Settle(task) ==
  IF task.end = "error" /\ ~aborted THEN ErrCalls ELSE << >>

\* ------------------------------------------------------ attemptReconnect
BackoffDelay_Shifted(k) == Min(reconnectDelay * 2^k, maxReconnectDelay)
BackoffDelay(k) == Min(reconnectDelay * 2^(k - 1), maxReconnectDelay)

MaxReached_OffByOne == reconnectAttempts > maxReconnectAttempts
MaxReached_Never == FALSE
MaxReached == reconnectAttempts >= maxReconnectAttempts

\* attemptReconnect() up to its timer (or its return, which lets the
\* finally block of processStream complete and the promise settle)
attemptReconnect(task) ==
  IF aborted \/ ~autoReconnect
  THEN /\ rd' = [task EXCEPT !.pc = "stopped",
                             !.why = IF aborted THEN "aborted" ELSE "disabled"]
       /\ calls' = Settle(task)
       /\ UNCHANGED reconnectAttempts
  ELSE IF MaxReached
  THEN /\ rd' = [task EXCEPT !.pc = "stopped", !.why = "exhausted"]
       /\ calls' = Settle(task)
       /\ UNCHANGED reconnectAttempts
  ELSE /\ reconnectAttempts' = reconnectAttempts + 1
       /\ rd' = [task EXCEPT !.pc = "backoff",
                             !.delay = BackoffDelay(reconnectAttempts + 1)]
       /\ calls' = << >>

\* --------------------------------------------------------------- connect
\* the messages of the errors connect() and openStream() throw
CreationError == "Channel creation failed: ${createResp.status}"
ActivationError_AsCreation == "Channel creation failed: ${createResp.status}"
ActivationError == "Channel activation failed: ${pokeResp.status}"
StreamError == "Stream connection failed: ${response.status}"
\* and those of poke() and scry()
PokeError == "Poke failed: ${response.status} - ${errorText}"
ScryError == "Scry failed: ${response.status} for path ${path}"

Reading == [pc |-> "reading", end |-> "none", delay |-> 0, tries |-> 0, why |-> "none"]

\* connect() throws: to the caller, or into attemptReconnect's catch
connectThrows(c) ==
  IF c = "fg"
  THEN /\ fg' = "failed"
       /\ calls' = << >>
       /\ UNCHANGED << rd, reconnectAttempts >>
  ELSE /\ attemptReconnect(rd)
       /\ UNCHANGED fg

At(c, pc) == IF c = "fg" THEN fg = pc ELSE rd.pc = pc
Goto(c, pc) ==
  IF c = "fg" THEN fg' = pc /\ UNCHANGED rd
  ELSE rd' = [rd EXCEPT !.pc = pc] /\ UNCHANGED fg

\* the caller calls connect() once, or again after it threw: never while a
\* connection is being made or is live
CanConnect_Any == fg \in {"idle", "failed", "connected"}
CanConnect == fg \in {"idle", "failed"} /\ rd.pc = "none"

\* the caller's connect(): the channel-creation request is sent
connect ==
  /\ CanConnect
  /\ fg' = "create"
  /\ sent' = << CreateRequest(channelId) >>
  /\ last' = "connect"
  /\ thrown' = "none"
  /\ frame' = NoFrame /\ calls' = << >>
  /\ UNCHANGED << subscriptions, eventHandlers, aborted, isConnected, channelId,
                  reconnectAttempts, cfgVars, rd, cl, returned, quitSub,
                  wireVars, appVars >>

\* the creation response: ok (2xx or 204) sends the helm-hi poke
onCreateResponse(c, ok) ==
  /\ At(c, "create")
  /\ IF ok
     THEN /\ Goto(c, "activate")
          /\ sent' = << ActivateRequest(channelId) >>
          /\ calls' = << >>
          /\ UNCHANGED reconnectAttempts
     ELSE /\ connectThrows(c)
          /\ sent' = << >>
  /\ last' = "createResponse"
  /\ thrown' = IF ok THEN "none" ELSE CreationError
  /\ frame' = NoFrame
  /\ UNCHANGED << subscriptions, eventHandlers, aborted, isConnected, channelId,
                  cfgVars, cl, returned, quitSub, wireVars, appVars >>

\* the poke response: ok calls openStream(), which sends the GET
onPokeResponse(c, ok) ==
  /\ At(c, "activate")
  /\ IF ok
     THEN /\ Goto(c, "stream")
          /\ sent' = << StreamRequest(channelId) >>
          /\ calls' = << >>
          /\ UNCHANGED reconnectAttempts
     ELSE /\ connectThrows(c)
          /\ sent' = << >>
  /\ last' = "pokeResponse"
  /\ thrown' = IF ok THEN "none" ELSE ActivationError
  /\ frame' = NoFrame
  /\ UNCHANGED << subscriptions, eventHandlers, aborted, isConnected, channelId,
                  cfgVars, cl, returned, quitSub, wireVars, appVars >>

\* this.reconnectAttempts = 0, the last statement of connect()
AttemptsAfterConnect_Kept == reconnectAttempts
AttemptsAfterConnect == 0

\* openStream() does not await processStream(): it returns, and so does
\* the caller's connect(), while the stream is being read
OpenStreamReturn_Awaits == "stream"
OpenStreamReturn == "connected"

\* the GET response: ok starts processStream in the background, openStream
\* and connect() return (isConnected, reconnectAttempts); for a reconnection
\* attemptReconnect returns too, the old processStream leaves its finally
\* block and its promise settles
onStreamResponse(c, ok) ==
  /\ At(c, "stream")
  /\ IF ok
     THEN /\ isConnected' = TRUE
          /\ reconnectAttempts' = AttemptsAfterConnect
          /\ rd' = Reading
          /\ IF c = "fg"
             THEN fg' = OpenStreamReturn /\ calls' = << >> /\ last' = "connected"
             ELSE UNCHANGED fg /\ calls' = Settle(rd) /\ last' = "reconnected"
     ELSE /\ connectThrows(c)
          /\ last' = "streamRefused"
          /\ UNCHANGED isConnected
  /\ thrown' = IF ok THEN "none" ELSE StreamError
  /\ sent' = << >>
  /\ frame' = NoFrame
  /\ UNCHANGED << subscriptions, eventHandlers, aborted, channelId,
                  cfgVars, cl, returned, quitSub, wireVars, appVars >>

\* ---------------------------------------------------------- processEvent
\* A frame: its "id: " line (0: none) and its "data: " line, which is absent,
\* not JSON, or JSON with response, id (0: none) and json (present or not).
Frames ==
  { [lineId |-> l, data |-> d] :
      l \in {0, 1},
      d \in { NoData, [NoData EXCEPT !.kind = "invalid"] } \cup
            { [kind |-> "json", response |-> r, id |-> i, json |-> j] :
                r \in {"diff", "quit"}, i \in 0..(MaxSubs + 1), j \in BOOLEAN } }

Call(h, sub) == [h |-> h, sub |-> sub]

\* for (const { event } of this.eventHandlers.values()) event(parsed.json):
\* a handler that throws ends the loop (the throw is caught by processEvent)
RECURSIVE Broadcast(_)
Broadcast(ks) ==
  IF ks = << >> THEN << >>
  ELSE LET e == eventHandlers[Head(ks)].event IN
       IF e = "none" THEN Broadcast(Tail(ks))
       ELSE IF e = "throws" THEN << Call("event", Head(ks)) >>
       ELSE << Call("event", Head(ks)) >> \o Broadcast(Tail(ks))

Registered(id) == id \in DOMAIN eventHandlers

processEvent_NoDataCheck(f) == Broadcast(KeysInOrder(DOMAIN eventHandlers))
processEvent_ContentFirst(f) ==
  LET parsed == f.data IN
  IF parsed.kind # "json" THEN << >>
  ELSE IF parsed.json THEN Broadcast(KeysInOrder(DOMAIN eventHandlers))
  ELSE IF parsed.response = "quit" /\ Registered(parsed.id)
          /\ eventHandlers[parsed.id].quit # "none"
  THEN << Call("quit", parsed.id) >>
  ELSE << >>

processEvent_ByLineId(f) ==
  LET parsed == f.data IN
  IF parsed.kind # "json" THEN << >>
  ELSE IF parsed.response = "quit"
  THEN IF Registered(parsed.id) /\ eventHandlers[parsed.id].quit # "none"
       THEN << Call("quit", parsed.id) >>
       ELSE << >>
  ELSE IF f.lineId # 0 /\ Registered(f.lineId)
  THEN IF eventHandlers[f.lineId].event # "none" /\ parsed.json
       THEN << Call("event", f.lineId) >>
       ELSE << >>
  ELSE IF parsed.json
  THEN Broadcast(KeysInOrder(DOMAIN eventHandlers))
  ELSE << >>

\* the handler invocations processEvent makes for a frame
processEvent(f) ==
  LET parsed == f.data IN
  IF parsed.kind # "json" THEN << >>
  ELSE IF parsed.response = "quit"
  THEN IF Registered(parsed.id) /\ eventHandlers[parsed.id].quit # "none"
       THEN << Call("quit", parsed.id) >>
       ELSE << >>
  ELSE IF parsed.id # 0 /\ Registered(parsed.id)
  THEN IF eventHandlers[parsed.id].event # "none" /\ parsed.json
       THEN << Call("event", parsed.id) >>
       ELSE << >>
  ELSE IF parsed.json
  THEN Broadcast(KeysInOrder(DOMAIN eventHandlers))
  ELSE << >>

\* --------------------------------------------------------- processStream
\* a chunk that completes one frame arrives: the loop body
processStreamChunk(f) ==
  /\ rd.pc = "reading"
  /\ IF aborted
     THEN /\ rd' = [rd EXCEPT !.pc = "stopped", !.why = "aborted"]
          /\ frame' = NoFrame
          /\ calls' = << >>
          /\ UNCHANGED quitSub
     ELSE /\ frame' = f
          /\ calls' = processEvent(f)
          /\ quitSub' = IF f.data.kind = "json" /\ f.data.response = "quit"
                           /\ Registered(f.data.id)
                        THEN f.data.id ELSE quitSub
          /\ UNCHANGED rd
  /\ last' = "chunk"
  /\ thrown' = "none"
  /\ sent' = << >>
  /\ UNCHANGED << subscriptions, eventHandlers, aborted, isConnected, channelId,
                  reconnectAttempts, cfgVars, fg, cl, returned, wireVars, appVars >>

\* the stream ends, by EOF or by a read error: the finally block
processStreamEnd(kind) ==
  /\ rd.pc = "reading"
  /\ LET task == [rd EXCEPT !.end = kind] IN
     IF ~aborted /\ autoReconnect
     THEN /\ isConnected' = FALSE
          /\ attemptReconnect(task)
     ELSE /\ rd' = [task EXCEPT !.pc = "stopped",
                                !.why = IF aborted THEN "aborted" ELSE "disabled"]
          /\ calls' = Settle(task)
          /\ UNCHANGED << isConnected, reconnectAttempts >>
  /\ last' = "streamEnd"
  /\ thrown' = "none"
  /\ frame' = NoFrame /\ sent' = << >>
  /\ UNCHANGED << subscriptions, eventHandlers, aborted, channelId,
                  cfgVars, fg, cl, returned, quitSub, wireVars, appVars >>

\* ------------------------------------------- attemptReconnect, after the wait
\* the timer fires: a new channel identity, then the hook or connect()
NewChannelId_Kept == channelId
NewChannelId == channelId + 1

backoffElapsed ==
  /\ rd.pc = "backoff"
  /\ channelId < MaxChannelIds
  /\ channelId' = NewChannelId
  /\ IF onReconnect
     THEN /\ rd' = [rd EXCEPT !.pc = "hook", !.tries = @ + 1]
          /\ calls' = << Call("onReconnect", 0) >>
          /\ sent' = << >>
     ELSE /\ rd' = [rd EXCEPT !.pc = "create", !.tries = @ + 1]
          /\ calls' = << >>
          /\ sent' = << CreateRequest(channelId') >>
  /\ last' = "backoffElapsed"
  /\ thrown' = "none"
  /\ frame' = NoFrame
  /\ UNCHANGED << subscriptions, eventHandlers, aborted, isConnected,
                  reconnectAttempts, cfgVars, fg, cl, returned, quitSub,
                  wireVars, appVars >>

\* the hook's promise settles: connect(), or the catch block if it rejected
onReconnectDone(ok) ==
  /\ rd.pc = "hook"
  /\ IF ok
     THEN /\ rd' = [rd EXCEPT !.pc = "create"]
          /\ sent' = << CreateRequest(channelId) >>
          /\ calls' = << >>
          /\ UNCHANGED reconnectAttempts
     ELSE /\ attemptReconnect(rd)
          /\ sent' = << >>
  /\ last' = "hookDone"
  /\ thrown' = "none"
  /\ frame' = NoFrame
  /\ UNCHANGED << subscriptions, eventHandlers, aborted, isConnected, channelId,
                  cfgVars, fg, cl, returned, quitSub, wireVars, appVars >>

\* ----------------------------------------------------------------- close
\* this.aborted = true, the first statement of close()
AbortedAfterClose_Toggle == ~aborted
AbortedAfterClose == TRUE

\* close(), called for the first time or again after an earlier call returned
close ==
  /\ cl \in {"idle", "done"}
  /\ aborted' = AbortedAfterClose
  /\ isConnected' = FALSE
  /\ cl' = "unsubscribe"
  /\ sent' = << UnsubscribeRequest(channelId) >>
  /\ last' = IF cl = "done" THEN "closeAgain" ELSE "close"
  /\ thrown' = "none"
  /\ frame' = NoFrame /\ calls' = << >>
  /\ UNCHANGED << subscriptions, eventHandlers, channelId, reconnectAttempts,
                  cfgVars, fg, rd, returned, quitSub, wireVars, appVars >>

\* catch (error) { console.error(...) }: close() returns
CloseCatch_Rethrow == "threw"
CloseCatch == "done"

\* the unsubscribe fetch resolves (any status): DELETE; it rejects: the catch
onUnsubscribeResponse(resolved) ==
  /\ cl = "unsubscribe"
  /\ IF resolved
     THEN cl' = "delete" /\ sent' = << DeleteRequest(channelId) >>
     ELSE cl' = CloseCatch /\ sent' = << >>
  /\ last' = "unsubscribeResponse"
  /\ thrown' = "none"
  /\ frame' = NoFrame /\ calls' = << >>
  /\ UNCHANGED << subscriptions, eventHandlers, aborted, isConnected, channelId,
                  reconnectAttempts, cfgVars, fg, rd, returned, quitSub,
                  wireVars, appVars >>

\* the DELETE fetch resolves (any status): close() returns; it rejects: the catch
onDeleteResponse(resolved) ==
  /\ cl = "delete"
  /\ cl' = IF resolved THEN "done" ELSE CloseCatch
  /\ last' = "deleteResponse"
  /\ thrown' = "none"
  /\ frame' = NoFrame /\ calls' = << >> /\ sent' = << >>
  /\ UNCHANGED << subscriptions, eventHandlers, aborted, isConnected, channelId,
                  reconnectAttempts, cfgVars, fg, rd, returned, quitSub,
                  wireVars, appVars >>

\* ----------------------------------------------------------- poke, scry
\* throw new Error(`Poke failed: ...`): the error goes to the caller of
\* poke() and to nothing else
pokeThrows_Reconnects == isConnected' = FALSE /\ attemptReconnect(rd)
pokeThrows ==
  /\ calls' = << >>
  /\ UNCHANGED << isConnected, reconnectAttempts, rd >>

\* poke(): the batch is sent; a response that is neither ok nor 204 throws
\* to the caller, any other returns the poke id
poke(ok) ==
  /\ sent' = << PokeRequest(channelId) >>
  /\ IF ok
     THEN /\ last' = "poke"
          /\ calls' = << >>
          /\ UNCHANGED << isConnected, reconnectAttempts, rd >>
     ELSE /\ last' = "pokeThrew"
          /\ pokeThrows
  /\ thrown' = IF ok THEN "none" ELSE PokeError
  /\ frame' = NoFrame
  /\ UNCHANGED << subscriptions, eventHandlers, aborted, channelId,
                  cfgVars, fg, cl, returned, quitSub, wireVars, appVars >>

\* scry(): the GET is sent; a response that is not ok throws to the caller
scry(ok) ==
  /\ sent' = << ScryRequest >>
  /\ last' = IF ok THEN "scry" ELSE "scryThrew"
  /\ thrown' = IF ok THEN "none" ELSE ScryError
  /\ frame' = NoFrame /\ calls' = << >>
  /\ UNCHANGED << subscriptions, eventHandlers, aborted, isConnected, channelId,
                  reconnectAttempts, cfgVars, fg, rd, cl, returned, quitSub,
                  wireVars, appVars >>

\* ------------------------------------------------- monitor.js: handlers
\* Ship names as they are written in a memo, a configuration or a text; a
\* name either starts with "~" or does not.
StartsWithSig(ship) == ship \in {"~bot", "~zod", "~nec"}
WithSig(ship) ==
  CASE ship = "bot" -> "~bot" [] ship = "zod" -> "~zod" [] ship = "nec" -> "~nec"
    [] OTHER -> ship
\* x.startsWith("~") ? x : `~${x}`
NormalizeShip(ship) == IF StartsWithSig(ship) THEN ship ELSE WithSig(ship)

\* a message text is the words extractMessageText() returns, split at white
\* space; the "i" flag of the mention pattern makes "~BOT" match "~bot"
LowerCase(word) == IF word = "~BOT" THEN "~bot" ELSE word
Texts == { << >>, << "hi" >>, << "hi", "~BOT" >>, << "~botany" >> }
Authors == { "~bot", "zod", "~zod", "nec" }

\* isBotMentioned(): the ship name as a whole word, in any letter case
isBotMentioned(messageText, botShipName) ==
  IF messageText = << >> \/ botShipName = "" THEN FALSE
  ELSE \E i \in DOMAIN messageText :
          LowerCase(messageText[i]) = LowerCase(NormalizeShip(botShipName))

isDmAllowed_AllowAll(senderShip, acct) == TRUE
\* isDmAllowed(): no allowlist or an empty one allows every sender
isDmAllowed(senderShip, acct) ==
  IF acct.dmAllowlist = << >> THEN TRUE
  ELSE \E i \in DOMAIN acct.dmAllowlist :
          NormalizeShip(acct.dmAllowlist[i]) = NormalizeShip(senderShip)

\* the configurations: account.ship, account.dmAllowlist, and for the one
\* group channel of the model its channelRules entry ("none": no rule) and
\* defaultAuthorizedShips
\* a rule field that is absent: mode "none", hasAllowedShips FALSE
NoRule == [mode |-> "none", hasAllowedShips |-> FALSE, allowedShips |-> << >>]
Accounts ==
  { [ship |-> "bot", dmAllowlist |-> l, rule |-> r,
     defaultAuthorizedShips |-> << "~zod" >>] :
      l \in { << >>, << "zod" >> },
      r \in { NoRule, [NoRule EXCEPT !.mode = "open"],
              [mode |-> "restricted", hasAllowedShips |-> TRUE,
               allowedShips |-> << "nec" >>] } }
\* an account with no allowlist and no channel rule
PlainAccount ==
  [ship |-> "bot", dmAllowlist |-> << >>, rule |-> NoRule,
   defaultAuthorizedShips |-> << "~zod" >>]

botShipName == NormalizeShip(account.ship)

DMUpdates ==
  { [id |-> i, content |-> c, author |-> a, text |-> t] :
      i \in 1..MaxMsgIds, c \in {"none", "memo"}, a \in Authors, t \in Texts }
GroupUpdates ==
  { [id |-> i, content |-> c, author |-> a, text |-> t] :
      i \in 1..MaxMsgIds, c \in {"none", "essay", "reply"}, a \in Authors,
      t \in Texts }

NoUpdate == [id |-> 0, content |-> "none", author |-> "", text |-> << >>]
NoHandled == [handler |-> "none", update |-> NoUpdate, outcome |-> "none"]

Screen_NoDuplicateCheck(update) ==
  IF update.content = "none" THEN "noContent"
  ELSE IF NormalizeShip(update.author) = botShipName THEN "own"
  ELSE IF update.text = << >> THEN "noText"
  ELSE "message"

\* what both handlers do with an update that carries a message, up to the
\* point where they differ: the duplicate check, the author, the text
Screen(update) ==
  IF update.content = "none" THEN "noContent"
  ELSE IF update.id \in processedMessages THEN "duplicate"
  ELSE IF NormalizeShip(update.author) = botShipName THEN "own"
  ELSE IF update.text = << >> THEN "noText"
  ELSE "message"

\* handleIncomingDM(update)
DMOutcome(update) ==
  IF Screen(update) # "message" THEN Screen(update)
  ELSE IF ~isDmAllowed(NormalizeShip(update.author), account) THEN "blocked"
  ELSE "dispatched"

\* channelRule?.mode || "restricted"
DefaultMode_Open == "open"
DefaultMode == "restricted"

\* handleIncomingGroupMessage(channelNest)(update)
GroupOutcome(update) ==
  IF Screen(update) # "message" THEN Screen(update)
  ELSE IF ~isBotMentioned(update.text, botShipName) THEN "notMentioned"
  ELSE LET rule == account.rule
           mode == IF rule.mode = "none" THEN DefaultMode ELSE rule.mode
           allowedShips == IF rule.hasAllowedShips
                           THEN rule.allowedShips
                           ELSE account.defaultAuthorizedShips
       IN IF mode = "restricted"
             /\ ~\E i \in DOMAIN allowedShips :
                    NormalizeShip(allowedShips[i]) = NormalizeShip(update.author)
          THEN "denied"
          ELSE "dispatched"

\* one handler runs from the update to its return or its processMessage()
handle(handler, update, outcome) ==
  /\ handled' = [handler |-> handler, update |-> update, outcome |-> outcome]
  /\ processedMessages' =
       IF outcome \in {"noContent", "duplicate"} THEN processedMessages
       ELSE processedMessages \cup {update.id}
  /\ dispatched' =
       IF outcome = "dispatched"
       THEN Append(dispatched, [id |-> update.id, isGroup |-> handler = "group",
                                senderShip |-> NormalizeShip(update.author)])
       ELSE dispatched
  /\ UNCHANGED << subscriptions, eventHandlers, aborted, isConnected, channelId,
                  reconnectAttempts, cfgVars, fg, rd, cl, returned, quitSub,
                  last, frame, calls, sent, thrown, wireVars, account,
                  cacheFiles, now, scryOut, options >>

handleIncomingDM(update) == handle("dm", update, DMOutcome(update))
handleIncomingGroupMessage(update) == handle("group", update, GroupOutcome(update))

MonitorIdle ==
  /\ processedMessages = {} /\ handled = NoHandled /\ dispatched = << >>

\* ------------------------------------------------ scry.mjs: the disk cache
\* TTL_CONFIG, in the order of its keys
TTLPatterns ==
  << "init.json", "groups.json", "channels.json", "contacts", "dm.json",
     "charges.json", "posts", "writs", "default" >>
TTL_CONFIG ==
  [ p \in { TTLPatterns[i] : i \in DOMAIN TTLPatterns } |->
      CASE p = "init.json" -> 5 * 60 * 1000
        [] p = "groups.json" -> 60 * 1000
        [] p = "channels.json" -> 60 * 1000
        [] p = "contacts" -> 60 * 1000
        [] p = "dm.json" -> 30 * 1000
        [] p = "charges.json" -> 10 * 60 * 1000
        [] p = "posts" -> 0
        [] p = "writs" -> 0
        [] OTHER -> 30 * 1000 ]

\* A scry path is modelled by the set of patterns it includes as substrings.
ScryPaths ==
  { {}, {"groups.json"}, {"posts"}, {"writs"}, {"contacts", "posts"},
    {"dm.json", "writs"} }

\* getTTL(): the first key of TTL_CONFIG the path includes
getTTL(path) ==
  LET hits == { i \in DOMAIN TTLPatterns : TTLPatterns[i] \in path }
  IN IF hits = {} THEN TTL_CONFIG["default"]
     ELSE TTL_CONFIG[TTLPatterns[CHOOSE i \in hits : \A j \in hits : i <= j]]

NoFile == -1
\* readCache(): the cached data ("hit") or null ("miss")
readCache(path) ==
  LET ttl == getTTL(path) IN
  IF ttl = 0 THEN "miss"
  ELSE IF cacheFiles[path] = NoFile THEN "miss"
  ELSE IF now - cacheFiles[path] < ttl THEN "hit"
  ELSE "miss"

\* writeCache(): the files after the call
writeCache(path) ==
  IF getTTL(path) = 0 THEN cacheFiles
  ELSE [cacheFiles EXCEPT ![path] = now]

NoScry == [path |-> {}, useCache |-> FALSE, source |-> "none", wrote |-> FALSE]

\* scry(url, cookie, path, useCache): from the cache, or fetched and cached
scryCached(path, useCache, ok) ==
  /\ IF useCache /\ readCache(path) = "hit"
     THEN /\ scryOut' = [path |-> path, useCache |-> useCache,
                         source |-> "cache", wrote |-> FALSE]
          /\ UNCHANGED cacheFiles
     ELSE IF ~ok
     THEN /\ scryOut' = [path |-> path, useCache |-> useCache,
                         source |-> "threw", wrote |-> FALSE]
          /\ UNCHANGED cacheFiles
     ELSE /\ cacheFiles' = writeCache(path)
          /\ scryOut' = [path |-> path, useCache |-> useCache,
                         source |-> "network",
                         wrote |-> getTTL(path) # 0]
  /\ UNCHANGED << subscriptions, eventHandlers, aborted, isConnected, channelId,
                  reconnectAttempts, cfgVars, fg, rd, cl, returned, quitSub,
                  last, frame, calls, sent, thrown, wireVars,
                  processedMessages, account, handled, dispatched, now,
                  options >>

\* time passes
tick ==
  /\ now < MaxTicks * TickMs
  /\ now' = now + TickMs
  /\ scryOut' = NoScry
  /\ UNCHANGED << subscriptions, eventHandlers, aborted, isConnected, channelId,
                  reconnectAttempts, cfgVars, fg, rd, cl, returned, quitSub,
                  last, frame, calls, sent, thrown, wireVars,
                  processedMessages, account, handled, dispatched, cacheFiles,
                  options >>

ScryIdle ==
  /\ cacheFiles = [p \in ScryPaths |-> NoFile] /\ now = 0 /\ scryOut = NoScry

\* ------------------------------------------------------------ the client
\* the options passed to the constructor (0: the option is absent)
Options ==
  { [autoReconnect |-> a, maxReconnectAttempts |-> 0, reconnectDelay |-> 0,
     maxReconnectDelay |-> 0, onReconnect |-> FALSE] : a \in {"unset", "false"} }
  \cup
  { [autoReconnect |-> "true", maxReconnectAttempts |-> MaxAttemptsOpt,
     reconnectDelay |-> 5, maxReconnectDelay |-> 8, onReconnect |-> TRUE] }

Init ==
  /\ \E o \in Options :
        /\ ClientInit(o.autoReconnect, o.maxReconnectAttempts, o.reconnectDelay,
                      o.maxReconnectDelay, o.onReconnect)
        /\ options = [o EXCEPT
              !.maxReconnectAttempts = IF @ = 0 THEN Absent ELSE @,
              !.reconnectDelay = IF @ = 0 THEN Absent ELSE @,
              !.maxReconnectDelay = IF @ = 0 THEN Absent ELSE @]
  /\ fg = "idle" /\ rd = NoTask /\ cl = "idle"
  /\ returned = << >> /\ quitSub = 0
  /\ last = "new" /\ frame = NoFrame /\ calls = << >> /\ sent = << >> /\ thrown = "none"
  /\ wireFrames = << >> /\ wire = << >> /\ buffer = << >> /\ delivered = << >>
  /\ account = PlainAccount
  /\ MonitorIdle /\ ScryIdle

Next ==
  \/ \E a \in SubscribeArgs : subscribe(a.app, a.path, a.handlers)
  \/ connect
  \/ \E c \in {"fg", "rc"}, ok \in BOOLEAN : onCreateResponse(c, ok)
  \/ \E c \in {"fg", "rc"}, ok \in BOOLEAN : onPokeResponse(c, ok)
  \/ \E c \in {"fg", "rc"}, ok \in BOOLEAN : onStreamResponse(c, ok)
  \/ \E f \in Frames : processStreamChunk(f)
  \/ \E kind \in {"eof", "error"} : processStreamEnd(kind)
  \/ backoffElapsed
  \/ \E ok \in BOOLEAN : onReconnectDone(ok)
  \/ close
  \/ \E resolved \in BOOLEAN : onUnsubscribeResponse(resolved)
  \/ \E resolved \in BOOLEAN : onDeleteResponse(resolved)
  \/ \E ok \in BOOLEAN : poke(ok)
  \/ \E ok \in BOOLEAN : scry(ok)

Spec == Init /\ [][Next]_vars

\* ------------------------------------------- processStream: frame reassembly
\* Bytes on the wire: "n" is a newline, "a" an ASCII character, "L" "C" the
\* two bytes of one two-byte UTF-8 character.  Text: "n", "a", "e" (that
\* two-byte character) and "R" (U+FFFD, what decoding makes of a lone byte).
FrameTexts ==
  { << "a" >>, << "a", "n", "a" >>, << "L", "C" >>, << "a", "L", "C", "a" >> }

\* chunk.toString(): each chunk is decoded on its own
RECURSIVE chunkToString(_)
chunkToString(chunk) ==
  IF chunk = << >> THEN << >>
  ELSE IF Head(chunk) = "L"
  THEN IF Len(chunk) >= 2 /\ chunk[2] = "C"
       THEN << "e" >> \o chunkToString(SubSeq(chunk, 3, Len(chunk)))
       ELSE << "R" >> \o chunkToString(Tail(chunk))
  ELSE IF Head(chunk) = "C" THEN << "R" >> \o chunkToString(Tail(chunk))
  ELSE << Head(chunk) >> \o chunkToString(Tail(chunk))

\* buffer.indexOf("\n\n"), 1-based; 0 when there is none
IndexOfBlankLine(buf) ==
  LET hits == { i \in 1..(Len(buf) - 1) : buf[i] = "n" /\ buf[i + 1] = "n" }
  IN IF hits = {} THEN 0 ELSE CHOOSE i \in hits : \A j \in hits : i <= j

\* while ((eventEnd = buffer.indexOf("\n\n")) !== -1) { ... processEvent }
RECURSIVE ExtractFrames(_, _)
ExtractFrames(buf, out) ==
  LET eventEnd == IndexOfBlankLine(buf) IN
  IF eventEnd = 0 THEN [buffer |-> buf, delivered |-> out]
  ELSE ExtractFrames(SubSeq(buf, eventEnd + 2, Len(buf)),
                     Append(out, SubSeq(buf, 1, eventEnd - 1)))

LoopBody_NewestFirst(buf, out, chunk) ==
  LET r == ExtractFrames(buf \o chunkToString(chunk), << >>)
  IN [buffer |-> r.buffer, delivered |-> r.delivered \o out]
\* the body of the for-await loop for one chunk
LoopBody(buf, out, chunk) == ExtractFrames(buf \o chunkToString(chunk), out)

RECURSIVE WireOf(_)
WireOf(frames) ==
  IF frames = << >> THEN << >>
  ELSE Head(frames) \o << "n", "n" >> \o WireOf(Tail(frames))

\* a chunk of n bytes arrives
readChunk(n) ==
  /\ n \in 1..Len(wire)
  /\ LET r == LoopBody(buffer, delivered, SubSeq(wire, 1, n)) IN
       /\ buffer' = r.buffer
       /\ delivered' = r.delivered
  /\ wire' = SubSeq(wire, n + 1, Len(wire))
  /\ UNCHANGED << subscriptions, eventHandlers, aborted, isConnected, channelId,
                  reconnectAttempts, cfgVars, fg, rd, cl, returned, quitSub,
                  last, frame, calls, sent, thrown, wireFrames, appVars >>

FrameSeqs == UNION { [1..k -> FrameTexts] : k \in 1..MaxFrames }

StreamInit ==
  /\ ClientInit("unset", 0, 0, 0, FALSE)
  /\ options = NoOptions
  /\ fg = "connected" /\ rd = Reading /\ cl = "idle"
  /\ returned = << >> /\ quitSub = 0
  /\ last = "connected" /\ frame = NoFrame /\ calls = << >> /\ sent = << >> /\ thrown = "none"
  /\ wireFrames \in FrameSeqs
  /\ wire = WireOf(wireFrames)
  /\ buffer = << >> /\ delivered = << >>
  /\ account = PlainAccount
  /\ MonitorIdle /\ ScryIdle

StreamNext == \E n \in 1..(3 * MaxFrames + 4) : readChunk(n)

\* the stream reader alone, over every text of at most MaxFrames frames and
\* every way of cutting it into chunks
SpecStream == StreamInit /\ [][StreamNext]_vars

\* a client that has been constructed without options, and nothing else
ClientIdle ==
  /\ ClientInit("unset", 0, 0, 0, FALSE)
  /\ options = NoOptions
  /\ fg = "idle" /\ rd = NoTask /\ cl = "idle"
  /\ returned = << >> /\ quitSub = 0
  /\ last = "new" /\ frame = NoFrame /\ calls = << >> /\ sent = << >> /\ thrown = "none"
  /\ wireFrames = << >> /\ wire = << >> /\ buffer = << >> /\ delivered = << >>

\* the monitor's two handlers, fed every sequence of updates
MonitorInit == ClientIdle /\ account \in Accounts /\ MonitorIdle /\ ScryIdle
MonitorNext ==
  \/ \E u \in DMUpdates : handleIncomingDM(u)
  \/ \E u \in GroupUpdates : handleIncomingGroupMessage(u)
SpecMonitor == MonitorInit /\ [][MonitorNext]_vars

\* the scry script run again and again over one cache directory
ScryInit ==
  /\ ClientIdle /\ MonitorIdle /\ ScryIdle
  /\ account = PlainAccount
ScryNext ==
  \/ \E path \in ScryPaths, useCache \in BOOLEAN, ok \in BOOLEAN :
        scryCached(path, useCache, ok)
  \/ tick
SpecScry == ScryInit /\ [][ScryNext]_vars

\* the constructor, given every options object
OptionsInit ==
  ClientIdle /\ account = PlainAccount /\ MonitorIdle /\ ScryIdle
OptionsNext == \E o \in OptionSets : constructor(o)
SpecOptions == OptionsInit /\ [][OptionsNext]_vars

\* the pokes of one client against the clock: the caller's connect() up to
\* its activation poke, poke() at any time, and time passing
PokeInit == OptionsInit
PokeNext ==
  \/ connect
  \/ \E ok \in BOOLEAN : onCreateResponse("fg", ok)
  \/ \E ok \in BOOLEAN : onPokeResponse("fg", ok)
  \/ \E ok \in BOOLEAN : poke(ok)
  \/ tick
SpecPoke == PokeInit /\ [][PokeNext]_vars

\* =================================================================== claims
HookCalled(cs) == \E i \in DOMAIN cs : cs[i].h = "onReconnect"
ErrCalled(cs) == \E i \in DOMAIN cs : cs[i].h = "err"
Sends(reqs, kind) == \E i \in DOMAIN reqs : reqs[i].kind = kind
Times(cs, h, sub) == Cardinality({ i \in DOMAIN cs : cs[i] = Call(h, sub) })
ChainStep == last \in {"streamEnd", "createResponse", "pokeResponse",
                       "streamRefused", "hookDone"}
Exhausted == rd.pc = "stopped" /\ rd.why = "exhausted"

\* C1: if close() was called while attemptReconnect() waits out its backoff
\* delay, the end of the wait starts no reconnection: the channel identity is
\* not regenerated, the onReconnect hook is not called and connect() sends
\* no channel-creation request.
C1_NoReconnectAfterClose ==
  [][ (aborted /\ rd.pc = "backoff") =>
        /\ channelId' = channelId
        /\ ~HookCalled(calls')
        /\ ~Sends(sent', "create") ]_vars

\* the frames handed to processEvent when every frame arrives as its own chunk
RECURSIVE FrameByFrame(_, _, _)
FrameByFrame(frames, buf, out) ==
  IF frames = << >> THEN out
  ELSE LET r == LoopBody(buf, out, Head(frames) \o << "n", "n" >>)
       IN FrameByFrame(Tail(frames), r.buffer, r.delivered)

\* C2: once the whole text has been read, whatever the chunks were, the frames
\* handed to processEvent are those handed over when each frame arrives as
\* its own chunk: same frames, same order.
C2_ChunkBoundaryIndependent ==
  wire = << >> => delivered = FrameByFrame(wireFrames, << >>, << >>)

\* C3: a non-quit frame whose id names a registered subscription invokes that
\* subscription's event handler and no other; a non-quit frame with no id or
\* an unregistered id is broadcast: the event handler of every registered
\* subscription is invoked with its content, once.
C3_ExclusiveDispatch ==
  (last = "chunk" /\ frame.data.kind = "json" /\ frame.data.response # "quit") =>
    LET id == frame.data.id
        withEvent == { x \in DOMAIN eventHandlers : eventHandlers[x].event # "none" }
    IN /\ \A i \in DOMAIN calls : calls[i].h = "event"
       /\ IF id # 0 /\ Registered(id)
          THEN /\ \A i \in DOMAIN calls : calls[i].sub = id
               /\ (frame.data.json /\ id \in withEvent) => calls = << Call("event", id) >>
          ELSE IF frame.data.json
               THEN \A x \in DOMAIN eventHandlers :
                       Times(calls, "event", x) = IF x \in withEvent THEN 1 ELSE 0
               ELSE calls = << >>

\* C4: after a quit event naming subscription X was processed, X is not in
\* the handler registry, and a later frame addressed to X invokes no handler
\* at all (neither X's nor, by broadcast, any other).
C4_QuitRemoves ==
  quitSub # 0 =>
    /\ ~Registered(quitSub)
    /\ (last = "chunk" /\ frame.data.kind = "json" /\ frame.data.response # "quit"
          /\ frame.data.id = quitSub) => calls = << >>

\* C5: a reconnect chain in which every connect() fails makes exactly
\* maxReconnectAttempts attempts (never more along the way), and once it has
\* stopped it makes no further attempt and sends no further channel request.
C5_ExactlyMaxAttempts ==
  /\ [](rd.tries <= maxReconnectAttempts)
  /\ [](Exhausted => rd.tries = maxReconnectAttempts)
  /\ [][ rd.pc = "stopped" =>
           /\ rd' = rd
           /\ channelId' = channelId
           /\ ~Sends(sent', "create") /\ ~Sends(sent', "activate")
           /\ ~Sends(sent', "stream") ]_vars
C5_Witness ==
  /\ Exhausted /\ ChainStep /\ ~aborted
  /\ rd.tries = MaxAttemptsOpt

\* C6: in the step in which reconnection is exhausted, the err handler of
\* every registered subscription (that has one) is invoked exactly once.
C6_ExhaustedNotifiesOnce ==
  (Exhausted /\ ChainStep /\ ~aborted) =>
    \A x \in DOMAIN eventHandlers :
      eventHandlers[x].err => Times(calls, "err", x) = 1

RECURSIVE Doubled(_, _)
Doubled(d, n) == IF n = 0 THEN d ELSE 2 * Doubled(d, n - 1)

\* C7: while attemptReconnect() waits, with k = reconnectAttempts (already
\* incremented, the k-th consecutive attempt since the last successful
\* connect), 1 <= k <= maxReconnectAttempts and the wait is reconnectDelay
\* doubled k-1 times, or maxReconnectDelay if that is less.
C7_BackoffDelay ==
  rd.pc = "backoff" =>
    LET k == reconnectAttempts
        d == Doubled(reconnectDelay, k - 1)
    IN /\ k = rd.tries + 1
       /\ 1 <= k /\ k <= maxReconnectAttempts
       /\ rd.delay = IF d < maxReconnectDelay THEN d ELSE maxReconnectDelay
C7_Witness ==
  /\ rd.pc = "backoff" /\ reconnectAttempts = 2
  /\ reconnectDelay = 5 /\ rd.delay = maxReconnectDelay

\* C8: subscribe() returns 1, 2, 3, ... in call order, and the registered
\* subscriptions keep these ids, whatever terminations and reconnections
\* happen in between.
C8_SubscriptionIds ==
  /\ \A i \in DOMAIN returned : returned[i].id = i
  /\ Len(subscriptions) = Len(returned)
  /\ \A i \in DOMAIN returned : subscriptions[i].id = returned[i].id
C8_Witness ==
  /\ last = "subscribe" /\ Len(returned) = 2
  /\ rd.pc = "reading" /\ channelId > 0

\* C9: the channel-creation request of a reconnection goes to the newly
\* generated channel and its batch holds every registered subscription once,
\* with the id, app and path subscribe() was called with and returned.
C9_ReconnectReplaysRegistry ==
  \A r \in DOMAIN sent :
    (sent[r].kind = "create" /\ last \in {"backoffElapsed", "hookDone"}) =>
      LET body == sent[r].body IN
      /\ sent[r].chan = channelId /\ channelId > 0
      /\ Len(body) = Len(returned)
      /\ \A j \in DOMAIN returned :
           Cardinality({ i \in DOMAIN body :
                           /\ body[i].id = returned[j].id
                           /\ body[i].action = "subscribe"
                           /\ body[i].app = returned[j].app
                           /\ body[i].path = returned[j].path }) = 1
      /\ \A x \in DOMAIN eventHandlers : \E i \in DOMAIN body : body[i].id = x
C9_Witness ==
  /\ last \in {"backoffElapsed", "hookDone"} /\ Sends(sent, "create")
  /\ Len(subscriptions) = 2 /\ channelId >= 2

\* C10: with autoReconnect enabled, the client not aborted and the attempt
\* budget not exhausted, no step invokes an err handler.
C10_TerminationInvisible ==
  (autoReconnect /\ ~aborted /\ ~Exhausted) => ~ErrCalled(calls)

\* C11: when a stream ends, by EOF or by a read error, while the client is
\* not aborted and autoReconnect is disabled, the err handler of every
\* registered subscription that has one is invoked.
C11_TerminalReported ==
  (last = "streamEnd" /\ ~aborted /\ ~autoReconnect) => calls = ErrCalls

\* C12: in a state where aborted is true, the request just sent, if any, is
\* the unsubscribe batch or the DELETE of close().
C12_AbortedSendsNothing ==
  aborted => \A i \in DOMAIN sent : sent[i].kind \in {"unsubscribe", "delete"}

\* C13: once aborted is true it stays true, and no step lowers
\* reconnectAttempts (a reset to zero included).
C13_AbortedTerminal ==
  [][ aborted => (aborted' /\ reconnectAttempts' >= reconnectAttempts) ]_vars

\* C14: when the connect() of a reconnection succeeds, reconnectAttempts is 0,
\* isConnected is true and the stream is read again; and when a stream that
\* is being read ends (not aborted, autoReconnect enabled), the backoff
\* starts with the first attempt counted and the base delay.
C14_ResetOnReconnect ==
  /\ last = "reconnected" =>
       reconnectAttempts = 0 /\ isConnected /\ rd.pc = "reading"
  /\ (last = "streamEnd" /\ ~aborted /\ autoReconnect) =>
       /\ rd.pc = "backoff"
       /\ reconnectAttempts = 1
       /\ rd.delay = Min(reconnectDelay, maxReconnectDelay)
C14_Witness ==
  last = "streamEnd" /\ rd.pc = "backoff" /\ channelId >= 2 /\ rd.delay = 5

\* C15: a step that starts a stream reader (the stream GET of connect()
\* succeeded) is taken only in a state where no reader is reading.
C15_OneReader ==
  [][ last' \in {"connected", "reconnected"} =>
        (rd.pc # "reading" /\ rd'.pc = "reading") ]_vars
C15_Witness == last = "reconnected" /\ aborted /\ rd.pc = "reading"

InConnect ==
  fg \in {"create", "activate", "stream"} \/ rd.pc \in {"create", "activate", "stream"}

\* C16: every request sent to a channel names the channel identity of the
\* state it is sent in, and the channel identity does not change while a run
\* of connect() is between its creation request and its stream response.
C16_CurrentChannel ==
  [][ /\ \A i \in DOMAIN sent' :
           sent'[i].kind # "scry" => sent'[i].chan = channelId'
      /\ (InConnect /\ InConnect') => channelId' = channelId ]_vars
C16_Witness ==
  last = "pokeResponse" /\ Sends(sent, "stream") /\ channelId >= 2 /\ cl = "delete"

\* C17: close() never ends by throwing: after either of its requests has
\* been answered or has failed, close() is at its DELETE or has returned.
C17_CloseNeverThrows ==
  /\ cl # "threw"
  /\ last = "unsubscribeResponse" => cl \in {"delete", "done"}
  /\ last = "deleteResponse" => cl = "done"
C17_Witness == last = "unsubscribeResponse" /\ cl = "done" /\ rd.pc = "backoff"

\* C18: when the stream GET of the caller's connect() has succeeded,
\* connect() has returned (isConnected is set) while the stream is being
\* read and has not ended.
C18_ConnectReturns ==
  last = "connected" =>
    fg = "connected" /\ isConnected /\ rd.pc = "reading" /\ rd.end = "none"
C18_Witness ==
  last = "poke" /\ fg = "connected" /\ rd.pc = "reading" /\ ~aborted

\* C19: a subscribe() made while the channel is live (connect() returned,
\* the stream is being read) sends a request to the current channel.
C19_LiveSubscribeTransmitted ==
  (last = "subscribe" /\ fg = "connected" /\ rd.pc = "reading" /\ ~aborted) =>
    (Len(sent) = 1 /\ sent[1].chan = channelId)

\* C20: a poke() or scry() that ends by throwing has sent exactly one request,
\* its own, has invoked no handler and has left subscriptions, handlers,
\* channel identity, aborted, isConnected, reconnectAttempts and the
\* connection and reconnection tasks as they were.
C20_FailureIsLocal ==
  [][ last' \in {"pokeThrew", "scryThrew"} =>
        /\ sent' = << IF last' = "pokeThrew" THEN PokeRequest(channelId)
                      ELSE ScryRequest >>
        /\ calls' = << >>
        /\ UNCHANGED << subscriptions, eventHandlers, channelId, aborted,
                        isConnected, reconnectAttempts, fg, rd, cl >> ]_vars
C20_Witness ==
  last = "pokeThrew" /\ rd.pc = "reading" /\ isConnected /\ Len(subscriptions) = 1

\* C21: a close() called again after an earlier close() finds aborted set and
\* leaves aborted true, isConnected false, the subscription list and the
\* handler map as they were, and starts its unsubscribe request; no close()
\* ends by throwing.
C21_CloseIdempotent ==
  [][ /\ cl' # "threw"
      /\ last' = "closeAgain" =>
           /\ aborted /\ aborted' /\ ~isConnected'
           /\ UNCHANGED << subscriptions, eventHandlers >>
           /\ cl' = "unsubscribe" ]_vars
C21_Witness == last = "closeAgain" /\ rd.pc = "backoff" /\ Len(subscriptions) = 1

\* C22: a message the monitor hands to processMessage(), DM or group post,
\* mentions the bot's ship name in its text.
C22_OnlyWhenMentioned ==
  handled.outcome = "dispatched" =>
    isBotMentioned(handled.update.text, botShipName)

\* C23: a scry of a path that includes "posts" or "writs" is not answered
\* from the cache, writes no cache file, and no cache file exists for it.
C23_HistoryNeverCached ==
  scryOut.path \cap {"posts", "writs"} # {} =>
    /\ scryOut.source # "cache"
    /\ ~scryOut.wrote
    /\ cacheFiles[scryOut.path] = NoFile

\* C24: the activation poke is sent only by the step that received a
\* successful creation response and the stream GET only by the step that
\* received a successful activation response; a creation response that is
\* not a success throws the creation error, an activation response that is
\* not a success throws the activation error, a different one, and in both
\* cases nothing is sent, isConnected is false and no reader is reading.
C24_ConnectInOrder ==
  /\ CreationError # ActivationError
  /\ Sends(sent, "activate") => (last = "createResponse" /\ thrown = "none")
  /\ Sends(sent, "stream") => (last = "pokeResponse" /\ thrown = "none")
  /\ (last = "createResponse" /\ ~Sends(sent, "activate")) =>
       (thrown = CreationError /\ sent = << >> /\ ~isConnected /\ rd.pc # "reading")
  /\ (last = "pokeResponse" /\ ~Sends(sent, "stream")) =>
       (thrown = ActivationError /\ sent = << >> /\ ~isConnected /\ rd.pc # "reading")
C24_Witness == thrown = ActivationError /\ fg = "failed" /\ Len(subscriptions) = 2

\* C25: the step that ends close()'s unsubscribe request, whatever its
\* outcome, sends the DELETE of the channel.
C25_DeleteAlwaysSent ==
  last = "unsubscribeResponse" =>
    (Len(sent) = 1 /\ sent[1] = DeleteRequest(channelId))

\* C26: a frame without data or with data that is not JSON invokes no
\* handler, sends nothing, and leaves the reader reading and the connection
\* state as they were; the frame after it is dispatched as any frame is.
C26_FrameFailuresLocal ==
  [][ /\ (last' = "chunk" /\ ~aborted /\ frame'.data.kind # "json") =>
           /\ calls' = << >> /\ sent' = << >>
           /\ rd.pc = "reading" /\ rd' = rd
           /\ UNCHANGED << isConnected, reconnectAttempts, channelId >>
      /\ (last = "chunk" /\ ~aborted /\ frame.data.kind # "json"
            /\ last' = "chunk") =>
           (frame' \in Frames /\ calls' = processEvent(frame')) ]_vars
C26_Witness ==
  /\ last = "chunk" /\ frame.data.kind = "invalid" /\ ~aborted
  /\ rd.pc = "reading" /\ Len(subscriptions) = 2

\* a text with every two-byte character replaced by what its two bytes give
\* when they are decoded apart
RECURSIVE Shape(_)
Shape(text) ==
  IF text = << >> THEN << >>
  ELSE IF Head(text) = "e" THEN << "R", "R" >> \o Shape(Tail(text))
  ELSE << Head(text) >> \o Shape(Tail(text))

C28_ReconnectOrder ==
  [][ /\ HookCalled(calls') => last' = "backoffElapsed"
      /\ last' = "backoffElapsed" =>
           /\ rd.pc = "backoff" /\ channelId' # channelId
           /\ IF onReconnect
              THEN /\ rd'.pc = "hook" /\ sent' = << >>
                   /\ calls' = << Call("onReconnect", 0) >>
              ELSE /\ rd'.pc = "create" /\ calls' = << >>
                   /\ sent' = << CreateRequest(channelId') >>
      /\ last' = "hookDone" =>
           /\ rd.pc = "hook" /\ channelId' = channelId
           /\ \/ rd'.pc = "create" /\ sent' = << CreateRequest(channelId) >>
              \/ /\ sent' = << >>
                 /\ rd'.pc = IF aborted \/ reconnectAttempts >= maxReconnectAttempts
                             THEN "stopped" ELSE "backoff"
      /\ (rd.pc = "create" /\ rd'.pc # rd.pc) =>
           rd'.pc \in {"activate", "backoff", "stopped"}
      /\ (rd.pc = "activate" /\ rd'.pc # rd.pc) =>
           rd'.pc \in {"stream", "backoff", "stopped"}
      /\ (rd.pc = "stream" /\ rd'.pc # rd.pc) =>
           rd'.pc \in {"reading", "backoff", "stopped"} ]_vars
C28_Witness ==
  last = "hookDone" /\ rd.pc = "backoff" /\ rd.tries = 1 /\ sent = << >>

\* C29: a frame whose response is "quit" invokes no event handler; it invokes
\* the quit handler of the subscription it names, once, if that subscription
\* is registered with a quit handler, and nothing otherwise.
C29_QuitFirst ==
  (last = "chunk" /\ frame.data.kind = "json" /\ frame.data.response = "quit") =>
    LET id == frame.data.id IN
    /\ \A i \in DOMAIN calls : calls[i] = Call("quit", id)
    /\ Len(calls) = IF Registered(id) /\ eventHandlers[id].quit # "none"
                    THEN 1 ELSE 0
C29_Witness ==
  /\ last = "chunk" /\ frame.data.response = "quit" /\ frame.data.json
  /\ calls = << Call("quit", frame.data.id) >> /\ Len(subscriptions) = 2

\* C30: a step of subscribe() sends no request, invokes nothing, adds one
\* entry to the subscription list and one to the handler map, and leaves
\* channelId, aborted, isConnected, reconnectAttempts, the configuration and
\* the tasks of connect(), the reader and close() as they were.
C30_SubscribeIsLocal ==
  [][ last' = "subscribe" =>
        /\ sent' = << >> /\ calls' = << >>
        /\ Len(subscriptions') = Len(subscriptions) + 1
        /\ Cardinality(DOMAIN eventHandlers') = Cardinality(DOMAIN eventHandlers) + 1
        /\ UNCHANGED << channelId, aborted, isConnected, reconnectAttempts,
                        cfgVars, fg, rd, cl >> ]_vars
C30_Witness ==
  last = "subscribe" /\ aborted /\ rd.pc = "backoff" /\ cl = "delete"

\* C31: a step of poke() sends a poke whose id differs from the id of every
\* poke and activation poke the step before it left on the wire, the clock
\* having moved or not.
C31_FreshPokeIds ==
  [][ (\E ok \in BOOLEAN : poke(ok)) =>
        \A i \in DOMAIN sent :
          sent[i].kind \in {"poke", "activate"} =>
            sent[i].body[1].id # sent'[1].body[1].id ]_vars

\* C32: after the constructor, every reconnect setting the options supply,
\* 0 included, is the setting of the client, and a default is in force only
\* where the option is absent.
C32_OptionsAsSupplied ==
  last = "constructed" =>
    /\ maxReconnectAttempts =
         (IF options.maxReconnectAttempts = Absent
          THEN DefaultMaxReconnectAttempts ELSE options.maxReconnectAttempts)
    /\ reconnectDelay =
         (IF options.reconnectDelay = Absent
          THEN DefaultReconnectDelay ELSE options.reconnectDelay)
    /\ maxReconnectDelay =
         (IF options.maxReconnectDelay = Absent
          THEN DefaultMaxReconnectDelay ELSE options.maxReconnectDelay)
    /\ autoReconnect = (options.autoReconnect # "false")

\* C33: no two of the messages handed to processMessage(), by the DM handler
\* or the group handler, carry the same message id.
C33_DispatchedOnce ==
  \A i \in DOMAIN dispatched, j \in DOMAIN dispatched :
    i # j => dispatched[i].id # dispatched[j].id
C33_Witness ==
  /\ handled.handler = "group" /\ handled.outcome = "duplicate"
  /\ \E k \in DOMAIN dispatched :
        dispatched[k].id = handled.update.id /\ ~dispatched[k].isGroup

\* C34: once a quit event naming a registered subscription was processed, a
\* channel-creation batch sent by a reconnection does not subscribe to it.
C34_QuitNotResubscribed ==
  (quitSub # 0 /\ rd.pc = "create") =>
    \A i \in DOMAIN sent :
      sent[i].kind = "create" =>
        \A k \in DOMAIN sent[i].body : sent[i].body[k].id # quitSub

\* C35: over a whole behaviour the reconnections of a client (each takes a
\* new channel identity) number at most maxReconnectAttempts.
C35_ReconnectionsBounded == channelId <= maxReconnectAttempts

\* C36: reconnectAttempts is at least 0 and at most maxReconnectAttempts.
C36_AttemptsInRange ==
  0 <= reconnectAttempts /\ reconnectAttempts <= maxReconnectAttempts
C36_Witness ==
  /\ reconnectAttempts = maxReconnectAttempts /\ rd.pc = "backoff"
  /\ maxReconnectAttempts = MaxAttemptsOpt /\ channelId > 0

\* C37: a frame that is broadcast invokes the event handler of every
\* registered subscription that has one, once, whether a handler throws or
\* not, and the reader goes on reading with the connection state as it was.
C37_BroadcastReachesAll ==
  (last = "chunk" /\ ~aborted /\ frame.data.kind = "json"
     /\ frame.data.response # "quit" /\ frame.data.json
     /\ ~(frame.data.id # 0 /\ Registered(frame.data.id))) =>
    /\ \A x \in DOMAIN eventHandlers :
         Times(calls, "event", x) = IF eventHandlers[x].event # "none" THEN 1 ELSE 0
    /\ rd.pc = "reading" /\ sent = << >>

\* C38: a frame handed to processEvent invokes the handlers the frame with
\* the same data and the other "id:" line (present for absent, absent for
\* present) invokes in the same state, in the same order.
C38_DataLineOnly ==
  (last = "chunk" /\ ~aborted) =>
    /\ frame \in Frames
    /\ calls = processEvent([frame EXCEPT !.lineId = 1 - @])
C38_Witness ==
  /\ last = "chunk" /\ ~aborted /\ frame.lineId = 1 /\ frame.data.id = 2
  /\ calls = << Call("event", 2) >> /\ Registered(1)

\* C39: the DM handler hands a message that passed its screening to
\* processMessage() exactly when the allowlist is empty or holds the author,
\* both written with a leading ~; with a non-empty allowlist every DM handed
\* over is from a ship of the list.
C39_DmAllowlist ==
  LET listed(ship) ==
        \E i \in DOMAIN account.dmAllowlist :
          NormalizeShip(account.dmAllowlist[i]) = NormalizeShip(ship)
  IN /\ (handled.handler = "dm" /\ handled.outcome \in {"blocked", "dispatched"}) =>
          (handled.outcome = "dispatched" <=>
             (account.dmAllowlist = << >> \/ listed(handled.update.author)))
     /\ \A k \in DOMAIN dispatched :
          (~dispatched[k].isGroup /\ account.dmAllowlist # << >>) =>
             listed(dispatched[k].senderShip)
C39_Witness ==
  /\ handled.handler = "dm" /\ handled.outcome = "blocked"
  /\ handled.update.author = "nec" /\ account.dmAllowlist = << "zod" >>
  /\ \E k \in DOMAIN dispatched : dispatched[k].senderShip = "~zod"

============================================================================
